---- MODULE Spec2Model ----
(***************************************************************************)
(* A model of the symbol / identifier resolution and date normalisation    *)
(* layer of financialdatapy (date.py, stock.py) and of the SEC facts       *)
(* script (scripts/financial.py).                                          *)
(*                                                                         *)
(* Python strings are sequences of one-character strings, so that the      *)
(* parsers and regular expressions of the code are modelled by what they   *)
(* do on the characters.  A Python value is a record [t, v]: its type tag  *)
(* and its payload.  The outcome of a call is a record [exc, val]: the     *)
(* exception raised ("none" when the call returns) and the value returned. *)
(***************************************************************************)
EXTENDS Integers, Sequences, FiniteSets, TLC

VARIABLES pc, cik_list, last, prev

vars == <<pc, cik_list, last, prev>>

----------------------------------------------------------------------------
(* Bounds of the model.                                                    *)

\* longest run of surrounding text put on each side of a country code
MaxPad == 1

\* longest fact list of a taxonomy tag in a payload
MaxFacts == 2

----------------------------------------------------------------------------
(* Characters.                                                             *)

Lowers == <<"a","b","c","d","e","f","g","h","i","j","k","l","m",
            "n","o","p","q","r","s","t","u","v","w","x","y","z">>

Uppers == <<"A","B","C","D","E","F","G","H","I","J","K","L","M",
            "N","O","P","Q","R","S","T","U","V","W","X","Y","Z">>

Digits == <<"0","1","2","3","4","5","6","7","8","9">>

Range(f) == { f[i] : i \in DOMAIN f }

IsLower(c) == c \in Range(Lowers)

IsUpper(c) == c \in Range(Uppers)

IsAlpha(c) == IsLower(c) \/ IsUpper(c)

IsDigit(c) == c \in Range(Digits)

\* a regular expression's \w
IsWord(c) == IsAlpha(c) \/ IsDigit(c) \/ c = "_"

\* a regular expression's \s, and what int() strips
IsSpace(c) == c \in {" ", "\n", "\t"}

DigitVal(c) == (CHOOSE i \in DOMAIN Digits : Digits[i] = c) - 1

UpperChar(c) == IF IsLower(c) THEN Uppers[CHOOSE i \in DOMAIN Lowers : Lowers[i] = c] ELSE c

LowerChar(c) == IF IsUpper(c) THEN Lowers[CHOOSE i \in DOMAIN Uppers : Uppers[i] = c] ELSE c

\* str.upper()
upper(s) == [i \in 1..Len(s) |-> UpperChar(s[i])]

\* str.lower()
lower(s) == [i \in 1..Len(s) |-> LowerChar(s[i])]

\* str.title(): a letter is upper-cased when the character before it is not a
\* letter and lower-cased when it is
title(s) == [i \in 1..Len(s) |->
               IF i > 1 /\ IsAlpha(s[i-1]) THEN LowerChar(s[i]) ELSE UpperChar(s[i])]

\* the value of a sequence of decimal digits
RECURSIVE DecVal(_)
DecVal(s) == IF s = <<>> THEN 0
             ELSE 10 * DecVal(SubSeq(s, 1, Len(s) - 1)) + DigitVal(s[Len(s)])

\* str(n) of an integer
RECURSIVE NatStr(_)
NatStr(n) == IF n < 10 THEN <<Digits[n + 1]>>
             ELSE NatStr(n \div 10) \o <<Digits[(n % 10) + 1]>>

\* n copies of the character c: c * n, empty when n <= 0
Repeat(c, n) == [i \in 1..n |-> c]

\* an integer of more than 32 bits is a record [hi, lo]: hi * 10^6 + lo with
\* 0 <= lo < 10^6.  Wide(hi, lo) is the integer of those two parts
Wide(hi, lo) == [hi |-> hi, lo |-> lo]

\* str(n) of an integer n >= 0
str(n) == IF n.hi = 0 THEN NatStr(n.lo)
          ELSE NatStr(n.hi) \o Repeat("0", 6 - Len(NatStr(n.lo))) \o NatStr(n.lo)

----------------------------------------------------------------------------
(* Python values and call outcomes.                                        *)

PyStr(s) == [t |-> "str", v |-> s]

PyInt(n) == [t |-> "int", v |-> n]

PyBool(b) == [t |-> "bool", v |-> b]

PyFloat(n) == [t |-> "float", v |-> n]

PyNone == [t |-> "none", v |-> 0]

Return(x) == [exc |-> "none", val |-> x]

Raise(e) == [exc |-> e, val |-> 0]

----------------------------------------------------------------------------
(* date.py                                                                 *)

IsLeap(y) == (y % 4 = 0) /\ ((y % 100 # 0) \/ (y % 400 = 0))

DaysInMonth(y, m) == IF m = 2 THEN (IF IsLeap(y) THEN 29 ELSE 28)
                     ELSE IF m \in {4, 6, 9, 11} THEN 30 ELSE 31

\* the positions after a match of %m at position i, in the order the
\* alternatives 1[0-2] | 0[1-9] | [1-9] are tried
MonthEnds(s, i) ==
    (IF i + 1 <= Len(s) /\ s[i] = "1" /\ s[i+1] \in {"0", "1", "2"} THEN <<i + 2>> ELSE <<>>)
    \o (IF i + 1 <= Len(s) /\ s[i] = "0" /\ IsDigit(s[i+1]) /\ s[i+1] # "0" THEN <<i + 2>> ELSE <<>>)
    \o (IF i <= Len(s) /\ IsDigit(s[i]) /\ s[i] # "0" THEN <<i + 1>> ELSE <<>>)

\* the positions after a match of %d at position i, in the order the
\* alternatives 3[0-1] | [1-2]\d | 0[1-9] | [1-9] | " "[1-9] are tried
DayEnds(s, i) ==
    (IF i + 1 <= Len(s) /\ s[i] = "3" /\ s[i+1] \in {"0", "1"} THEN <<i + 2>> ELSE <<>>)
    \o (IF i + 1 <= Len(s) /\ s[i] \in {"1", "2"} /\ IsDigit(s[i+1]) THEN <<i + 2>> ELSE <<>>)
    \o (IF i + 1 <= Len(s) /\ s[i] = "0" /\ IsDigit(s[i+1]) /\ s[i+1] # "0" THEN <<i + 2>> ELSE <<>>)
    \o (IF i <= Len(s) /\ IsDigit(s[i]) /\ s[i] # "0" THEN <<i + 1>> ELSE <<>>)
    \o (IF i + 1 <= Len(s) /\ s[i] = " " /\ IsDigit(s[i+1]) /\ s[i+1] # "0" THEN <<i + 2>> ELSE <<>>)

\* the number of digits of the year directive: %Y is \d\d\d\d, %y is \d\d
YearWidth(fmt) == IF fmt = "%Y-%m-%d" THEN 4 ELSE 2

\* the year a directive's digits stand for: %y follows the POSIX window,
\* 69..99 is 1969..1999 and 00..68 is 2000..2068
YearOf(fmt, digits) ==
    IF fmt = "%Y-%m-%d" THEN DecVal(digits)
    ELSE IF DecVal(digits) <= 68 THEN 2000 + DecVal(digits) ELSE 1900 + DecVal(digits)

\* the matches of the format's regular expression at the start of s, in the
\* order a backtracking matcher finds them: <<end of month, end of day>>
FormatMatches(s, fmt) ==
    LET w == YearWidth(fmt)
    IN  IF /\ Len(s) >= w + 1
           /\ \A i \in 1..w : IsDigit(s[i])
           /\ s[w + 1] = "-"
        THEN LET ms == MonthEnds(s, w + 2)
                 Rest(k) == IF k <= Len(s) /\ s[k] = "-"
                            THEN [j \in 1..Len(DayEnds(s, k + 1)) |-> <<k, DayEnds(s, k + 1)[j]>>]
                            ELSE <<>>
                 RECURSIVE All(_)
                 All(n) == IF n > Len(ms) THEN <<>> ELSE Rest(ms[n]) \o All(n + 1)
             IN  All(1)
        ELSE <<>>

\* datetime.strptime(period, fmt) for the two formats of the module
strptime(period, fmt) ==
    IF period.t # "str" THEN Raise("TypeError")
    ELSE LET s == period.v
             found == FormatMatches(s, fmt)
         IN  IF found = <<>> THEN Raise("ValueError")
             ELSE LET w == YearWidth(fmt)
                      mEnd == found[1][1]
                      dEnd == found[1][2]
                      year == YearOf(fmt, SubSeq(s, 1, w))
                      month == DecVal(SubSeq(s, w + 2, mEnd - 1))
                      dayTok == SubSeq(s, mEnd + 1, dEnd - 1)
                      day == DecVal(IF dayTok[1] = " " THEN Tail(dayTok) ELSE dayTok)
                  IN  IF dEnd # Len(s) + 1 THEN Raise("ValueError")
                      ELSE IF year < 1 \/ day > DaysInMonth(year, month) THEN Raise("ValueError")
                      ELSE Return([year |-> year, month |-> month, day |-> day])

\* two decimal digits
Pad2(n) == IF n < 10 THEN <<"0">> \o NatStr(n) ELSE NatStr(n)

\* datetime.today().strftime('%Y-%m-%d'), for a clock after year 1000
strftime(d) == NatStr(d.year) \o <<"-">> \o Pad2(d.month) \o <<"-">> \o Pad2(d.day)

\* validate_date_format without the isinstance(period, int) test
validate_date_format_any_type(period, today) ==
    LET p == IF period.t = "none" THEN PyStr(strftime(today)) ELSE period
        first == strptime(p, "%Y-%m-%d")
    IN  IF first.exc = "ValueError" THEN strptime(p, "%y-%m-%d") ELSE first

\* validate_date_format without the fallback to the two-digit year
validate_date_format_four_digits(period, today) ==
    IF period.t \in {"int", "bool"} THEN Raise("IntegerDateInputError")
    ELSE strptime(IF period.t = "none" THEN PyStr(strftime(today)) ELSE period, "%Y-%m-%d")

validate_date_format(period, today) ==
    IF period.t \in {"int", "bool"} THEN Raise("IntegerDateInputError")
    ELSE LET p == IF period.t = "none" THEN PyStr(strftime(today)) ELSE period
             first == strptime(p, "%Y-%m-%d")
         IN  IF first.exc = "ValueError" THEN strptime(p, "%y-%m-%d") ELSE first

\* datetime's proleptic Gregorian ordinal of a date, day 1 is 0001-01-01
DaysBeforeYear(y) == (y - 1) * 365 + ((y - 1) \div 4) - ((y - 1) \div 100) + ((y - 1) \div 400)

RECURSIVE DaysBeforeMonth(_, _)
DaysBeforeMonth(y, m) == IF m = 1 THEN 0 ELSE DaysBeforeMonth(y, m - 1) + DaysInMonth(y, m - 1)

toordinal(d) == DaysBeforeYear(d.year) + DaysBeforeMonth(d.year, d.month) + d.day

\* the ordinal of 1970-01-01
EpochOrdinal == 719163

\* the offset of the zone Etc/GMT+4 from UTC, in seconds: four hours behind
EdtUtcOffset == 0 - 14400

\* the integer 100 * n100, of more than 32 bits
Big(n100) == Wide(n100 \div 10000, (n100 % 10000) * 100)

\* the timestamp of the date taken as midnight UTC, the zone left out
timestamp_utc(d, utcoffset) == Big((toordinal(d) - EpochOrdinal) * 864)

\* int(datetime.timestamp(edt_date)) of a date at midnight in a zone of the
\* given offset: (days since the epoch) * 86400 - offset
timestamp(d, utcoffset) ==
    Big((toordinal(d) - EpochOrdinal) * 864 - (utcoffset \div 100))

date_to_timestamp(period, today) ==
    LET date == validate_date_format(period, today)
    IN  IF date.exc # "none" THEN date
        ELSE Return(timestamp(date.val, EdtUtcOffset))

----------------------------------------------------------------------------
(* stock.py                                                                *)

\* \b at position p of s, the gap before the p-th character
WordBoundary(s, p) ==
    ((p > 1) /\ IsWord(s[p - 1])) # ((p <= Len(s)) /\ IsWord(s[p]))

\* the start positions where \b[a-zA-Z]{3}\b matches in s
TokenStarts(s) ==
    { i \in 1..(Len(s) - 2) :
        /\ WordBoundary(s, i)
        /\ \A j \in i..(i + 2) : IsAlpha(s[j])
        /\ WordBoundary(s, i + 3) }

\* re.search(r'\b[a-zA-Z]{3}\b', country_code).group(): the leftmost match;
\* a non-string is a TypeError of re.search, no match is an AttributeError
\* of None.group()
re_search_group(country_code) ==
    IF country_code.t # "str" THEN Raise("TypeError")
    ELSE IF TokenStarts(country_code.v) = {} THEN Raise("AttributeError")
    ELSE LET i == CHOOSE k \in TokenStarts(country_code.v) :
                      \A m \in TokenStarts(country_code.v) : k <= m
         IN  Return(SubSeq(country_code.v, i, i + 2))

\* _validate_country_code without the upper()
validate_country_code_as_found(country_code) ==
    LET m == re_search_group(country_code)
    IN  IF m.exc \in {"TypeError", "AttributeError"} THEN Raise("CountryCodeValidationFailed")
        ELSE Return(PyStr(m.val))

\* _validate_country_code with except AttributeError alone
validate_country_code_no_type_error(country_code) ==
    LET m == re_search_group(country_code)
    IN  IF m.exc = "AttributeError" THEN Raise("CountryCodeValidationFailed")
        ELSE IF m.exc # "none" THEN m
        ELSE Return(PyStr(upper(m.val)))

validate_country_code(country_code) ==
    LET m == re_search_group(country_code)
    IN  IF m.exc \in {"TypeError", "AttributeError"} THEN Raise("CountryCodeValidationFailed")
        ELSE Return(PyStr(upper(m.val)))

\* s without the whitespace at its two ends
RECURSIVE strip(_)
strip(s) == IF s # <<>> /\ IsSpace(s[1]) THEN strip(Tail(s))
            ELSE IF s # <<>> /\ IsSpace(s[Len(s)]) THEN strip(SubSeq(s, 1, Len(s) - 1))
            ELSE s

\* int(symbol): an integer is itself and None a TypeError; a string is
\* whitespace around, an optional sign, then decimal digits with single
\* underscores between them, and anything else a ValueError
int_of(symbol) ==
    IF symbol.t \in {"int", "bool"} THEN Return(symbol.v)
    ELSE IF symbol.t # "str" THEN Raise("TypeError")
    ELSE LET b == strip(symbol.v)
             d == IF b # <<>> /\ b[1] \in {"+", "-"} THEN Tail(b) ELSE b
         IN  IF /\ d # <<>>
                /\ \A i \in 1..Len(d) : IsDigit(d[i]) \/ d[i] = "_"
                /\ IsDigit(d[1]) /\ IsDigit(d[Len(d)])
                /\ \A i \in 1..(Len(d) - 1) : ~(d[i] = "_" /\ d[i + 1] = "_")
             THEN Return(DecVal(SelectSeq(d, IsDigit)))
             ELSE Raise("ValueError")

\* the code directory of the Korea Exchange: company name and company code
KrxDirectory ==
    { [name |-> <<"s","a","m","s","u","n","g">>, code |-> <<"0","0","5","9","3","0">>],
      [name |-> <<"n","a","v","e","r">>,         code |-> <<"0","3","5","4","2","0">>] }

\* CompanyCode.search_code(symbol): the code of the company of that name
search_code(symbol) ==
    IF \E r \in KrxDirectory : r.name = symbol.v
    THEN Return(PyStr((CHOOSE r \in KrxDirectory : r.name = symbol.v).code))
    ELSE Raise("CodeNotFoundError")

\* the market of the translated symbols
KRX == <<"K","O","R">>

\* an entry of the trace of a call: the function called and its outcome
Made(fn, out) == [fn |-> fn, out |-> out]

\* _convert_symbol_to_code_in_krx without the int(symbol) test
convert_symbol_always_searched(symbol, country_code) ==
    IF country_code.v # KRX THEN [out |-> Return(symbol), calls |-> <<>>]
    ELSE [out |-> search_code(symbol), calls |-> <<Made("search_code", search_code(symbol))>>]

\* the outcome of _convert_symbol_to_code_in_krx and the calls it made
convert_symbol_to_code_in_krx(symbol, country_code) ==
    IF country_code.v # KRX THEN [out |-> Return(symbol), calls |-> <<>>]
    ELSE LET is_code == int_of(symbol)
         IN  IF is_code.exc = "none"
             THEN [out |-> Return(symbol), calls |-> <<Made("int", is_code)>>]
             ELSE IF is_code.exc = "ValueError"
             THEN [out |-> search_code(symbol),
                   calls |-> <<Made("int", is_code), Made("search_code", search_code(symbol))>>]
             ELSE [out |-> is_code, calls |-> <<Made("int", is_code)>>]

\* Market(country_code)
Market(country_code) == [country_code |-> country_code]

\* Stock(symbol, country_code): the object built, or the exception raised,
\* and the calls made on the way, in the order they return
Stock(symbol, country_code) ==
    LET cc == validate_country_code(country_code)
    IN  IF cc.exc # "none"
        THEN [out |-> cc, calls |-> <<Made("_validate_country_code", cc)>>]
        ELSE LET conv == convert_symbol_to_code_in_krx(symbol, cc.val)
                 made == <<Made("_validate_country_code", cc)>> \o conv.calls
                         \o <<Made("_convert_symbol_to_code_in_krx", conv.out)>>
             IN  IF conv.out.exc # "none"
                 THEN [out |-> conv.out, calls |-> made]
                 ELSE [out |-> Return([country_code |-> cc.val,
                                       symbol |-> conv.out.val,
                                       market |-> Market(cc.val)]),
                       calls |-> made \o <<Made("Market", Return(Market(cc.val)))>>]

----------------------------------------------------------------------------
(* scripts/financial.py                                                    *)

\* get_cik(): the table of the fetched rows, the company names title-cased
get_cik(data) ==
    [i \in 1..Len(data) |-> [cik |-> data[i].cik,
                             name |-> title(lower(data[i].name)),
                             ticker |-> data[i].ticker]]

\* search_cik with the zeros counted to a width of nine
search_cik_width_nine(ticker, table) ==
    LET t == upper(ticker)
        IsRow(r) == r.ticker = t
        data == SelectSeq(table, IsRow)
    IN  IF data = <<>> THEN Raise("IndexError")
        ELSE Return(Repeat("0", 9 - Len(str(data[1].cik))) \o str(data[1].cik))

\* search_cik(ticker) on the table cik_list
search_cik(ticker, table) ==
    LET t == upper(ticker)
        IsRow(r) == r.ticker = t
        data == SelectSeq(table, IsRow)
    IN  IF data = <<>> THEN Raise("IndexError")
        ELSE LET zeros == 10 - Len(str(data[1].cik))
             IN  Return(Repeat("0", zeros) \o str(data[1].cik))

\* re.match('CY\d*', frame), the $ left out: CY at the start of the frame
MatchFrame_prefix(frame) == Len(frame) >= 2 /\ frame[1] = "C" /\ frame[2] = "Y"

\* re.match('CY\d*$', frame): CY, digits, then the end of the string or the
\* newline that ends it
MatchFrame(frame) ==
    /\ Len(frame) >= 2
    /\ frame[1] = "C"
    /\ frame[2] = "Y"
    /\ \E e \in 2..Len(frame) :
         /\ \A i \in 3..e : IsDigit(frame[i])
         /\ \/ e = Len(frame)
            \/ e = Len(frame) - 1 /\ frame[Len(frame)] = "\n"

\* whether extract_numbers keeps the fact
Kept(i) == ("frame" \in DOMAIN i) /\ MatchFrame(i.frame)

RECURSIVE Numbers(_)
Numbers(fs) == IF fs = <<>> THEN <<>>
               ELSE (IF Kept(fs[1]) THEN <<fs[1].val>> ELSE <<>>) \o Numbers(Tail(fs))

\* extract_numbers(facts, taxonomy): facts[taxonomy] of a missing key is a
\* KeyError
extract_numbers(facts, taxonomy) ==
    IF taxonomy \notin DOMAIN facts THEN Raise("KeyError")
    ELSE Return(Numbers(facts[taxonomy]))

\* get_latest(data): data[-1]
get_latest(data) ==
    IF data = <<>> THEN Raise("IndexError") ELSE Return(data[Len(data)])

----------------------------------------------------------------------------
(* The inputs of the calls.                                                *)

YearStrs == { <<"2","0","2","1">>, <<"2","1">>, <<"1","9","0","0">>, <<"1","9","7","0">>, <<"7","0">>, <<"2","0","2","0">>, <<"6","8">> }

MonthStrs == { <<"8">>, <<"0","8">>, <<"2">>, <<"0","1">> }

DayStrs == { <<"3">>, <<"0","3">>, <<"1","0">>, <<"2","9">>, <<"0","1">> }

\* the date strings of the three fields, in both year forms, padded or not
FieldDates == { y \o <<"-">> \o m \o <<"-">> \o d : y \in YearStrs, m \in MonthStrs, d \in DayStrs }

\* strings that are no date, or a date written in another way
OtherDates ==
    { <<"2","0","2","1","-","1","3","-","1">>,
      <<"2","0","2","1","-","8","-","3","2">>,
      <<"2","0","2","1","-","2","-","3","0">>,
      <<"2","0","2","1","-","0","8","-","0","3"," ">>,
      <<"2","0","2","1","-","8","-"," ","3">>,
      <<"2","0","2","1","/","8","/","3">>,
      <<"0","0","0","0","-","1","-","1">>,
      <<"2","1","-","8">>,
      <<"2","0","2","-","8","-","3">>,
      <<>> }

DateStrings == FieldDates \cup OtherDates

DateInts == { 0 - 1, 0, 1, 20210803 }

\* what a caller may pass as a date: a string, an integer, a boolean, a
\* float, or nothing
DatePeriods ==
    { PyStr(s) : s \in DateStrings } \cup { PyInt(n) : n \in DateInts }
    \cup { PyBool(b) : b \in BOOLEAN } \cup { PyFloat(0), PyNone }

\* the days the clock of the host may show
Clock == { [year |-> 2021, month |-> 8, day |-> 3], [year |-> 2026, month |-> 11, day |-> 4] }

\* the characters of the text around a country code
PadChars == { " ", "2", "_", "x" }

Pads == UNION { [1..n -> PadChars] : n \in 0..MaxPad }

CountryCores ==
    { <<"u","s","a">>, <<"U","S","A">>, <<"k","o","r">>, <<"u","s">>, <<"1","2">>, <<>>, <<"u","s","a"," ","k","o","r">> }

CountryStrings == { a \o c \o b : a \in Pads, c \in CountryCores, b \in Pads }

\* what a caller may pass as a country code: a string, an integer or nothing
CountryCodes == { PyStr(c) : c \in CountryStrings } \cup { PyInt(12), PyNone }

SymbolStrings ==
    { <<"A","A","P","L">>, <<"0","0","5","9","3","0">>, <<"s","a","m","s","u","n","g">>, <<"k","a","k","a","o">>, <<" ","1","2"," ">>, <<"1","_","0">>, <<"1","2","a">>, <<>> }

\* what a caller may pass as a symbol: a string, an integer or nothing
Symbols == { PyStr(s) : s \in SymbolStrings } \cup { PyInt(5930), PyNone }

\* the rows a fetch of the ticker file may return
RawTables ==
    { <<>>,
      << [cik |-> Wide(0, 320193), name |-> <<"A","P","P","L","E"," ","I","N","C",".">>, ticker |-> <<"A","A","P","L">>],
         [cik |-> Wide(0, 789019), name |-> <<"M","I","C","R","O","S","O","F","T"," ","C","O","R","P">>, ticker |-> <<"M","S","F","T">>] >>,
      << [cik |-> Wide(0, 7), name |-> <<"A","G","I","L","E","N","T">>, ticker |-> <<"A">>],
         [cik |-> Wide(9999, 999999), name |-> <<"A","P","P","L","E"," ","I","N","C",".">>, ticker |-> <<"A","A","P","L">>],
         [cik |-> Wide(0, 5), name |-> <<"A","P","P","L","E"," ","I","N","C",".">>, ticker |-> <<"A","A","P","L">>] >>,
      << [cik |-> Wide(0, 0), name |-> <<"z","e","r","o"," ","c","o">>, ticker |-> <<"Z","E","R","O">>],
         [cik |-> Wide(1000, 0), name |-> <<"b","i","g">>, ticker |-> <<"B","I","G">>],
         [cik |-> Wide(10000, 0), name |-> <<"h","u","g","e">>, ticker |-> <<"H","U","G","E">>],
         [cik |-> Wide(0, 99), name |-> <<"A","P","P","L","E"," ","I","N","C",".">>, ticker |-> <<"a","a","p","l">>] >> }

Tickers ==
    { <<"A","A","P","L">>, <<"a","a","p","l">>, <<"A","a","p","l">>, <<"M","S","F","T">>, <<"A">>, <<"z","e","r","o">>, <<"B","I","G">>, <<"H","U","G","E">>, <<"T","S","L","A">> }

Frames ==
    { <<"C","Y","2","0","1","9">>, <<"C","Y","2","0","1","9","Q","1">>, <<"C","Y">>, <<"F","Y","2","0","1","9">>, <<"C","Y","2","0","1","9","\n">> }

Vals == { 10, 20 }

\* a fact of a payload: a value, with or without a frame
Facts == { [val |-> v] : v \in Vals } \cup { [frame |-> f, val |-> v] : f \in Frames, v \in Vals }

FactLists == UNION { [1..n -> Facts] : n \in 0..MaxFacts }

revenue_taxonomy == "RevenueFromContractWithCustomerExcludingAssessedTax"

Taxonomies == { revenue_taxonomy, "Assets" }

\* the facts of a company: nothing, or the fact list of the revenue tag
Payloads == { <<>> } \cup { [k \in {revenue_taxonomy} |-> fs] : fs \in FactLists }

----------------------------------------------------------------------------
(* The state machine: a client converts a start date and then an end date, *)
(* or builds a Stock, or runs the steps of scripts/financial.py.  pc is    *)
(* the position of the run; last is the latest call, its arguments and its *)
(* outcome; prev is the call before it; cik_list is the script's table.    *)

NoCall == [op |-> "none", arg |-> <<>>, out |-> Return(0), calls |-> <<>>]

Call(op, arg, out, calls) == [op |-> op, arg |-> arg, out |-> out, calls |-> calls]

\* nothing is called yet; the script binds cik_list in its first step, and
\* search_cik reads it only after
Init ==
    /\ pc = "start"
    /\ cik_list = <<>>
    /\ last = NoCall
    /\ prev = NoCall

\* date_to_timestamp(period), for the start date and then for the end date
DateToTimestamp ==
    /\ pc \in {"start", "start_date"}
    /\ \E today \in Clock, period \in DatePeriods :
         LET out == date_to_timestamp(period, today)
         IN  /\ last' = Call("date_to_timestamp", period, out, <<>>)
             /\ pc' = IF out.exc # "none" THEN "raised"
                      ELSE IF pc = "start" THEN "start_date" ELSE "end_date"
    /\ prev' = last
    /\ UNCHANGED cik_list

\* Stock(symbol, country_code)
StockInit ==
    /\ pc = "start"
    /\ \E symbol \in Symbols, country_code \in CountryCodes :
         LET r == Stock(symbol, country_code)
         IN  /\ last' = Call("Stock", <<symbol, country_code>>, r.out, r.calls)
             /\ pc' = IF r.out.exc # "none" THEN "raised" ELSE "stock"
    /\ UNCHANGED <<cik_list, prev>>

\* cik_list = get_cik()
GetCik ==
    /\ pc = "start"
    /\ \E data \in RawTables : cik_list' = get_cik(data)
    /\ last' = Call("get_cik", <<>>, Return(0), <<>>)
    /\ pc' = "cik_list"
    /\ UNCHANGED prev

\* cik_num = search_cik(ticker)
SearchCik ==
    /\ pc = "cik_list"
    /\ \E ticker \in Tickers :
         LET out == search_cik(ticker, cik_list)
         IN  /\ last' = Call("search_cik", ticker, out, <<>>)
             /\ pc' = IF out.exc # "none" THEN "raised" ELSE "cik_num"
    /\ UNCHANGED <<cik_list, prev>>

\* financial_data = get_sec_data(cik_num): the facts the source returns
GetSecData ==
    /\ pc = "cik_num"
    /\ \E payload \in Payloads :
         last' = Call("get_sec_data", last.out.val, Return(payload), <<>>)
    /\ pc' = "financial_data"
    /\ UNCHANGED <<cik_list, prev>>

\* revenues = extract_numbers(facts, taxonomy): the script passes facts, a
\* name it binds nowhere; the call is modelled on the facts of
\* financial_data, which the function is written for
ExtractNumbers ==
    /\ pc = "financial_data"
    /\ \E taxonomy \in Taxonomies :
         LET out == extract_numbers(last.out.val, taxonomy)
         IN  /\ last' = Call("extract_numbers", <<last.out.val, taxonomy>>, out, <<>>)
             /\ pc' = IF out.exc # "none" THEN "raised" ELSE "revenues"
    /\ UNCHANGED <<cik_list, prev>>

\* latest_revenue = get_latest(revenues)
GetLatest ==
    /\ pc = "revenues"
    /\ LET out == get_latest(last.out.val)
       IN  /\ last' = Call("get_latest", last.out.val, out, <<>>)
           /\ pc' = IF out.exc # "none" THEN "raised" ELSE "latest_revenue"
    /\ UNCHANGED <<cik_list, prev>>

Next ==
    \/ DateToTimestamp
    \/ StockInit
    \/ GetCik
    \/ SearchCik
    \/ GetSecData
    \/ ExtractNumbers
    \/ GetLatest

Spec == Init /\ [][Next]_vars

----------------------------------------------------------------------------
(* Dates as the specification reads them, apart from the parser.           *)

\* the positions of the dashes of s
Dashes(s) == { i \in 1..Len(s) : s[i] = "-" }

AllDigits(s) == \A i \in 1..Len(s) : IsDigit(s[i])

YearField(s) == SubSeq(s, 1, (CHOOSE i \in Dashes(s) : \A j \in Dashes(s) : i <= j) - 1)

MonthField(s) == SubSeq(s, (CHOOSE i \in Dashes(s) : \A j \in Dashes(s) : i <= j) + 1,
                           (CHOOSE i \in Dashes(s) : \A j \in Dashes(s) : i >= j) - 1)

DayField(s) == SubSeq(s, (CHOOSE i \in Dashes(s) : \A j \in Dashes(s) : i >= j) + 1, Len(s))

\* s is written YYYY-M-D or YY-M-D, month and day of one or two digits
InDateForm(s) ==
    /\ Cardinality(Dashes(s)) = 2
    /\ Len(YearField(s)) \in {2, 4} /\ AllDigits(YearField(s))
    /\ Len(MonthField(s)) \in {1, 2} /\ AllDigits(MonthField(s))
    /\ Len(DayField(s)) \in {1, 2} /\ AllDigits(DayField(s))

\* the calendar date s stands for; a two-digit year is of 1969..2068
CalendarDate(s) ==
    LET y == DecVal(YearField(s))
    IN  [year |-> IF Len(YearField(s)) = 4 THEN y ELSE IF y >= 69 THEN 1900 + y ELSE 2000 + y,
         month |-> DecVal(MonthField(s)),
         day |-> DecVal(DayField(s))]

YearLength(y) == IF (y % 400 = 0) \/ (y % 4 = 0 /\ y % 100 # 0) THEN 366 ELSE 365

MonthLengths(y) == <<31, YearLength(y) - 337, 31, 30, 31, 30, 31, 31, 30, 31, 30, 31>>

\* s is in date form and names a day of the calendar
ValidDateString(s) ==
    /\ InDateForm(s)
    /\ LET d == CalendarDate(s)
       IN  /\ d.year >= 1
           /\ d.month \in 1..12
           /\ d.day \in 1..MonthLengths(d.year)[d.month]

\* the days from the first of January of year a to that of year b, a <= b
RECURSIVE DaysOfYears(_, _)
DaysOfYears(a, b) == IF a >= b THEN 0 ELSE YearLength(a) + DaysOfYears(a + 1, b)

RECURSIVE DaysOfMonths(_, _)
DaysOfMonths(y, m) == IF m <= 1 THEN 0 ELSE MonthLengths(y)[m - 1] + DaysOfMonths(y, m - 1)

\* the days from 1970-01-01 to the date
DaysFromEpoch(d) ==
    (IF d.year >= 1970 THEN DaysOfYears(1970, d.year) ELSE 0 - DaysOfYears(d.year, 1970))
    + DaysOfMonths(d.year, d.month) + (d.day - 1)

\* 86400 * days + 14400 seconds, as hi * 10^6 + lo
MidnightEdt(days) ==
    [hi |-> (days * 864 + 144) \div 10000, lo |-> ((days * 864 + 144) % 10000) * 100]

IsDateCall(c) == c.op = "date_to_timestamp"

Returned(c) == c.out.exc = "none"

----------------------------------------------------------------------------
(* The claims.                                                             *)

\* C1: an integer passed as the date always fails with IntegerDateInputError,
\* whatever its value, and no timestamp is returned.
C1_IntegerDateRejected ==
    (IsDateCall(last) /\ last.arg.t = "int")
        => (last.out.exc = "IntegerDateInputError" /\ pc = "raised")

\* an integer that reads as a date, 20210803, was passed and rejected
C1_Witness ==
    /\ IsDateCall(last) /\ last.arg.t = "int" /\ last.arg.v = 20210803
    /\ last.out.exc = "IntegerDateInputError"

\* C2: every valid date string in YYYY-MM-DD or YY-MM-DD form, zero-padded or
\* not, is converted, a two-digit year being read only when the four-digit
\* format does not match, and two strings of the same calendar date give the
\* same epoch value.
C2_SameDateSameTimestamp ==
    /\ (IsDateCall(last) /\ last.arg.t = "str" /\ ValidDateString(last.arg.v))
           => /\ Returned(last)
              /\ (Len(YearField(last.arg.v)) = 2) = (strptime(last.arg, "%Y-%m-%d").exc # "none")
    /\ (/\ IsDateCall(prev) /\ IsDateCall(last)
        /\ prev.arg.t = "str" /\ last.arg.t = "str"
        /\ ValidDateString(prev.arg.v) /\ ValidDateString(last.arg.v)
        /\ CalendarDate(prev.arg.v) = CalendarDate(last.arg.v))
           => (Returned(prev) /\ Returned(last) /\ prev.out.val = last.out.val)

\* 2021-08-03 was converted and then 21-8-3, to the same value
C2_Witness ==
    /\ pc = "end_date"
    /\ prev.arg = PyStr(<<"2","0","2","1","-","0","8","-","0","3">>)
    /\ last.arg = PyStr(<<"2","1","-","8","-","3">>)
    /\ prev.out.val = last.out.val

Tokens(s) ==
    { i \in 1..(Len(s) - 2) :
        /\ IsAlpha(s[i]) /\ IsAlpha(s[i + 1]) /\ IsAlpha(s[i + 2])
        /\ (i = 1 \/ ~IsWord(s[i - 1]))
        /\ (i + 2 = Len(s) \/ ~IsWord(s[i + 3])) }

\* s has three letters in a row
HasThreeLetters(s) ==
    \E i \in 1..(Len(s) - 2) : IsAlpha(s[i]) /\ IsAlpha(s[i + 1]) /\ IsAlpha(s[i + 2])

\* x is a string of exactly three upper-case letters
IsAlpha3(x) == x.t = "str" /\ Len(x.v) = 3 /\ \A i \in 1..3 : IsUpper(x.v[i])

IsStockCall(c) == c.op = "Stock"

\* the outcome of _validate_country_code in a Stock call
Validated(c) == c.calls[1].out

\* the entries of a function in the trace of a call
Entries(c, fn) == { i \in 1..Len(c.calls) : c.calls[i].fn = fn }

\* C4 as stated: for any string with three letters in a row inside any
\* surrounding text, _validate_country_code returns that token in upper
\* case, exactly three upper-case letters.
C4_Original ==
    (IsStockCall(last) /\ last.arg[2].t = "str" /\ HasThreeLetters(last.arg[2].v))
        => /\ Validated(last).exc = "none"
           /\ IsAlpha3(Validated(last).val)
           /\ \E i \in 1..(Len(last.arg[2].v) - 2) :
                Validated(last).val.v = upper(SubSeq(last.arg[2].v, i, i + 2))

\* C4, amended: for any string with a run of exactly three letters that no
\* letter, digit or underscore touches, _validate_country_code returns the
\* first such token in upper case; whatever it returns is exactly three
\* upper-case letters.
C4_DelimitedTokenUppercased ==
    IsStockCall(last) =>
        /\ (last.arg[2].t = "str" /\ Tokens(last.arg[2].v) # {})
               => LET i == CHOOSE k \in Tokens(last.arg[2].v) :
                               \A m \in Tokens(last.arg[2].v) : k <= m
                  IN  Validated(last) = Return(PyStr(upper(SubSeq(last.arg[2].v, i, i + 2))))
        /\ Validated(last).exc = "none" => IsAlpha3(Validated(last).val)

\* " usa " was validated to USA
C4_Witness ==
    /\ IsStockCall(last)
    /\ last.arg[2] = PyStr(<<" ","u","s","a"," ">>)
    /\ Validated(last) = Return(PyStr(<<"U","S","A">>))

\* C5: for an input with no three-letter token (None, a non-string, a string
\* where no run of exactly three letters stands alone), the validation fails
\* with CountryCodeValidationFailed and nothing else, and the construction
\* of the Stock stops there: no conversion, no name search.
C5_NoTokenFails ==
    (IsStockCall(last) /\ (last.arg[2].t # "str" \/ Tokens(last.arg[2].v) = {}))
        => /\ last.out = Raise("CountryCodeValidationFailed")
           /\ Len(last.calls) = 1
           /\ last.calls[1] = Made("_validate_country_code", Raise("CountryCodeValidationFailed"))
           /\ pc = "raised"

\* None was passed as the country code and the construction failed
C5_Witness ==
    /\ IsStockCall(last)
    /\ last.arg[2].t = "none"
    /\ last.out.exc = "CountryCodeValidationFailed"
    /\ pc = "raised"

\* the row of the table that search_cik reads for a ticker: the first one
\* of the upper-cased ticker
Rows(table, ticker) == { i \in 1..Len(table) : table[i].ticker = upper(ticker) }

FirstRow(table, ticker) == CHOOSE i \in Rows(table, ticker) : \A j \in Rows(table, ticker) : i <= j

\* C6: for a ticker of the table, matched after upper-casing it, search_cik
\* returns the id of the row left-padded with zeros to exactly ten digits,
\* of the same integer value, for the ids from 0 to 9999999999.
C6_CikTenDigits ==
    (/\ last.op = "search_cik"
     /\ Rows(cik_list, last.arg) # {}
     /\ cik_list[FirstRow(cik_list, last.arg)].cik.hi \in 0..9999)
        => /\ Returned(last)
           /\ Len(last.out.val) = 10
           /\ AllDigits(last.out.val)
           /\ DecVal(SubSeq(last.out.val, 1, 4)) = cik_list[FirstRow(cik_list, last.arg)].cik.hi
           /\ DecVal(SubSeq(last.out.val, 5, 10)) = cik_list[FirstRow(cik_list, last.arg)].cik.lo

\* aapl was searched in a table with the row of AAPL, id 320193
C6_Witness ==
    /\ last.op = "search_cik"
    /\ last.arg = <<"a","a","p","l">>
    /\ last.out = Return(<<"0","0","0","0","3","2","0","1","9","3">>)

\* C7: extract_numbers with a tag that the payload does not have, or with an
\* empty payload, returns an empty sequence and raises nothing.
C7_AbsentTagEmpty ==
    (last.op = "extract_numbers" /\ last.arg[2] \notin DOMAIN last.arg[1])
        => last.out = Return(<<>>)

\* C8: get_latest returns the last element of a sequence that is not empty
\* and a missing-value marker, no exception, on the empty sequence.
C8_LatestNeverRaises ==
    last.op = "get_latest"
        => /\ last.arg # <<>> => last.out = Return(last.arg[Len(last.arg)])
           /\ last.arg = <<>> => last.out.exc = "none"

\* C9: _convert_symbol_to_code_in_krx returns the symbol unchanged for every
\* country code but KOR, and for KOR when the symbol parses as an integer;
\* search_code is called only for KOR with a symbol that does not parse,
\* for every such string, and what it returns, or raises, is the outcome.
C9_ConvertOnlyForKrx ==
    (IsStockCall(last) /\ Validated(last).exc = "none")
        => LET cc == Validated(last).val.v
               symbol == last.arg[1]
               conv == last.calls[CHOOSE i \in Entries(last, "_convert_symbol_to_code_in_krx") : TRUE].out
               searched == Entries(last, "search_code")
           IN  /\ Cardinality(Entries(last, "_convert_symbol_to_code_in_krx")) = 1
               /\ cc # KRX => (conv = Return(symbol) /\ searched = {})
               /\ (cc = KRX /\ int_of(symbol).exc = "none") => (conv = Return(symbol) /\ searched = {})
               /\ searched # {} => (cc = KRX /\ int_of(symbol).exc # "none")
               /\ (cc = KRX /\ symbol.t = "str" /\ int_of(symbol).exc # "none") => searched # {}
               /\ searched # {} => (Cardinality(searched) = 1
                                    /\ \A i \in searched : conv = last.calls[i].out)

\* the name samsung was searched for the market KOR and its code returned
C9_Witness ==
    /\ IsStockCall(last)
    /\ last.arg[1] = PyStr(<<"s","a","m","s","u","n","g">>)
    /\ Returned(last)
    /\ last.out.val.country_code.v = KRX
    /\ last.out.val.symbol = PyStr(<<"0","0","5","9","3","0">>)
    /\ Entries(last, "search_code") # {}

\* the indices of the facts of fs that carry a frame of the pattern P
Framed(fs, P(_)) == { i \in 1..Len(fs) : "frame" \in DOMAIN fs[i] /\ P(fs[i].frame) }

\* out is the values of the facts of fs at the indices of I, in their order
ValuesAt(out, fs, I) ==
    /\ Len(out) = Cardinality(I)
    /\ \A i \in I : out[Cardinality({ j \in I : j <= i })] = fs[i].val

\* CY, digits, then nothing or the suffix of a quarter, Q and a digit
QuarterOrYearFrame(f) ==
    /\ Len(f) >= 2 /\ f[1] = "C" /\ f[2] = "Y"
    /\ \/ AllDigits(SubSeq(f, 3, Len(f)))
       \/ /\ Len(f) >= 4 /\ f[Len(f) - 1] = "Q" /\ IsDigit(f[Len(f)])
          /\ AllDigits(SubSeq(f, 3, Len(f) - 2))

\* CY, then digits alone up to the end, a final newline apart
YearFrame(f) ==
    LET body == IF f # <<>> /\ f[Len(f)] = "\n" THEN SubSeq(f, 1, Len(f) - 1) ELSE f
    IN  Len(body) >= 2 /\ body[1] = "C" /\ body[2] = "Y" /\ AllDigits(SubSeq(body, 3, Len(body)))

\* C10 as stated: the result of extract_numbers for a tag is the values, in
\* payload order, of exactly the facts with a frame of CY and digits,
\* optionally with a quarter suffix.
C10_Original ==
    (last.op = "extract_numbers" /\ Returned(last))
        => ValuesAt(last.out.val, last.arg[1][last.arg[2]],
                    Framed(last.arg[1][last.arg[2]], QuarterOrYearFrame))

\* C10, amended: the result of extract_numbers for a tag is the values, in
\* payload order, of exactly the facts with a frame of CY followed by digits
\* alone (none or more, up to the end of the frame, a final newline apart);
\* a fact with no frame, or with a frame of any other form, a quarter suffix
\* included, is left out.
C10_YearFramesInOrder ==
    (last.op = "extract_numbers" /\ Returned(last))
        => ValuesAt(last.out.val, last.arg[1][last.arg[2]],
                    Framed(last.arg[1][last.arg[2]], YearFrame))

\* two year facts around no fact in between were extracted in their order
C10_Witness ==
    /\ last.op = "extract_numbers"
    /\ last.arg[2] = revenue_taxonomy
    /\ revenue_taxonomy \in DOMAIN last.arg[1]
    /\ Len(last.arg[1][revenue_taxonomy]) = 2
    /\ \A i \in 1..2 : "frame" \in DOMAIN last.arg[1][revenue_taxonomy][i]
    /\ last.arg[1][revenue_taxonomy][1].frame = <<"C","Y","2","0","1","9">>
    /\ last.arg[1][revenue_taxonomy][2].frame = <<"C","Y","2","0","1","9","Q","1">>
    /\ last.out = Return(<<last.arg[1][revenue_taxonomy][1].val>>)

====
